---------------------------- MODULE Spec2Model ----------------------------
(***************************************************************************)
(* Model of the Ledger application API of src/blockchains/celo/hw/index.ts *)
(* (class Ledger): every public operation builds one or more command      *)
(* frames, hands them to transport.send and turns the transport's answer   *)
(* into a result or an error.                                              *)
(*                                                                         *)
(* Bytes are naturals 0..255, buffers are sequences of bytes (1-based in   *)
(* TLA+, 0-based in the source: source offset o is position o + 1).        *)
(* A path component is an unsigned 32-bit number; it is kept as the pair   *)
(* (hardened bit, low 31 bits) so that every number stays below 2^31.      *)
(* A BigNumber and a hexadecimal string are sequences of hexadecimal       *)
(* digits (0..15), most significant first; the empty sequence is null.     *)
(***************************************************************************)
EXTENDS Integers, Sequences, FiniteSets, TLC

VARIABLES
    pc,           \* "idle" | "chunk" | "foreach" | "await" | "done"
    op,           \* the public method in progress
    paths,        \* splitPath(path)
    args,         \* the record of the other arguments of a Stark operation
    payload,      \* rawTx (signTransaction) or message (signPersonalMessage)
    rlpOffset,    \* signTransaction: offset of the EIP 155 marker, 0 if none
    offset,       \* the chunking loop's cursor
    toSend,       \* the frames built so far
    idx,          \* foreach: index of the next frame to hand to the callback
    response,     \* the closure variable `response`; <<>> with hasResponse
    hasResponse,  \* FALSE while `response` is still undefined
    inflight,     \* indices of frames passed to transport.send, not settled
    sent,         \* history: every transport.send call of the operation
    lastReceived, \* history: the frame index and bytes of the latest answer
    failure,      \* history: the first failed send, its frame index and error
    outcome,      \* the promise returned to the caller
    calls         \* two calls in progress at once: the locals of each

\* the variables of one call at a time
single == << pc, op, paths, args, payload, rlpOffset, offset, toSend, idx,
            response, hasResponse, inflight, sent, lastReceived, failure,
            outcome >>

vars == << single, calls >>

-----------------------------------------------------------------------------
(* Bounds of the model *)

\* longest transaction data field / message, in bytes
MaxDataLen == 300

\* longest derivation path, in components
MaxPathLen == 2

\* most frames the chunking loop is followed for
MaxFrames == 4

-----------------------------------------------------------------------------
(* Protocol constants *)

\* the literal 150 of the chunking loops
MaxChunk == 150

\* status code remapped by remapTransactionRelatedErrors (0x6a80)
SW_6A80 == 27264

\* status code of the soft fallback (0x6d00)
SW_6D00 == 27904

\* class bytes 0xe0 and 0xf0
CLA_ETH == 224

CLA_STARK == 240

\* param1 of a first frame and of a continuation frame
P1_FIRST == 0

P1_MORE == 128

-----------------------------------------------------------------------------
(* Buffers *)

Min(a, b) == IF a < b THEN a ELSE b

Max(a, b) == IF a > b THEN a ELSE b

\* Buffer.alloc(n) / Buffer.alloc(n, 0)
Alloc(n) == [i \in 1..n |-> 0]

\* src.copy(target, targetStart): as many bytes as fit in the target
Copy(src, target, targetStart) ==
    [i \in 1..Len(target) |->
        IF i > targetStart /\ i <= targetStart + Len(src)
        THEN src[i - targetStart]
        ELSE target[i]]

\* buf.slice(start, end) with 0 <= start: both ends clamped to the length
Slice(buf, start, end) ==
    SubSeq(buf, Min(start, Len(buf)) + 1, Min(end, Len(buf)))

\* the four bytes writeUInt32BE writes for a number below 2^31
BE32(n) ==
    << n \div 16777216, (n \div 65536) % 256, (n \div 256) % 256, n % 256 >>

\* PathBE32 with the least significant byte first
PathBE32_littleEndian(c) ==
    << c.index % 256, (c.index \div 256) % 256, (c.index \div 65536) % 256,
       (IF c.hardened THEN 128 ELSE 0) + c.index \div 16777216 >>

\* the four bytes writeUInt32BE writes for a path component
PathBE32(c) ==
    << (IF c.hardened THEN 128 ELSE 0) + c.index \div 16777216,
       (c.index \div 65536) % 256, (c.index \div 256) % 256, c.index % 256 >>

\* buffer[0] = paths.length; paths.forEach(writeUInt32BE(element, 1 + 4 * index))
RECURSIVE WritePathFrom(_, _, _)
WritePathFrom(buf, ps, index) ==
    IF index >= Len(ps) THEN buf
    ELSE WritePathFrom(Copy(PathBE32(ps[index + 1]), buf, 1 + 4 * index),
                       ps, index + 1)

WritePath(buf, ps) ==
    WritePathFrom(Copy(<< Len(ps) % 256 >>, buf, 0), ps, 0)

-----------------------------------------------------------------------------
(* Hexadecimal strings *)

HexChars ==
    << "0", "1", "2", "3", "4", "5", "6", "7",
       "8", "9", "a", "b", "c", "d", "e", "f" >>

\* buf.toString("hex"): two characters per byte, high digit first
ToHex(buf) ==
    [i \in 1..(2 * Len(buf)) |->
        IF i % 2 = 1 THEN HexChars[(buf[(i + 1) \div 2] \div 16) + 1]
                     ELSE HexChars[(buf[i \div 2] % 16) + 1]]

\* Buffer.from(digits, "hex"): one byte per pair of digits, a trailing
\* single digit is dropped
HexDecode(digits) ==
    [i \in 1..(Len(digits) \div 2) |-> 16 * digits[2 * i - 1] + digits[2 * i]]

\* str.padStart(width, "0")
PadStart(digits, width) ==
    IF Len(digits) >= width THEN digits
    ELSE [i \in 1..(width - Len(digits)) |-> 0] \o digits

\* hexBuffer(str) for a string without the 0x prefix
hexBuffer(str) == HexDecode(str)

-----------------------------------------------------------------------------
(* RLP, as the rlp package encodes and decodes it *)

\* the shortest big-endian form of a length
RlpLength(n) ==
    IF n < 256 THEN << n >>
    ELSE IF n < 65536 THEN << n \div 256, n % 256 >>
    ELSE << n \div 65536, (n \div 256) % 256, n % 256 >>

RlpEncodeString(b) ==
    IF Len(b) = 1 /\ b[1] < 128 THEN b
    ELSE IF Len(b) < 56 THEN << 128 + Len(b) >> \o b
    ELSE << 183 + Len(RlpLength(Len(b))) >> \o RlpLength(Len(b)) \o b

RECURSIVE RlpConcat(_)
RlpConcat(items) ==
    IF items = << >> THEN << >>
    ELSE RlpEncodeString(Head(items)) \o RlpConcat(Tail(items))

\* encode(list of byte strings)
RlpEncode(items) ==
    LET body == RlpConcat(items)
    IN  IF Len(body) < 56 THEN << 192 + Len(body) >> \o body
        ELSE << 247 + Len(RlpLength(Len(body))) >> \o RlpLength(Len(body)) \o body

\* the number a big-endian length field stands for
RECURSIVE RlpReadLength(_, _, _)
RlpReadLength(buf, pos, n) ==
    IF n = 0 THEN 0
    ELSE 256 * RlpReadLength(buf, pos, n - 1) + buf[pos + n - 1]

\* the items of a list body, from position pos to the end of the buffer
RECURSIVE RlpDecodeItems(_, _)
RlpDecodeItems(buf, pos) ==
    IF pos > Len(buf) THEN << >>
    ELSE LET b == buf[pos]
         IN  IF b < 128 THEN << << b >> >> \o RlpDecodeItems(buf, pos + 1)
             ELSE IF b < 184
                  THEN << SubSeq(buf, pos + 1, pos + b - 128) >>
                       \o RlpDecodeItems(buf, pos + 1 + (b - 128))
                  ELSE LET ll == b - 183
                           n  == RlpReadLength(buf, pos + 1, ll)
                       IN  << SubSeq(buf, pos + 1 + ll, pos + ll + n) >>
                           \o RlpDecodeItems(buf, pos + 1 + ll + n)

\* decode(buffer holding one list of byte strings)
RlpDecode(buf) ==
    IF buf[1] < 248 THEN RlpDecodeItems(buf, 2)
    ELSE RlpDecodeItems(buf, 2 + (buf[1] - 247))

\* array.slice(-3)
LastThree(items) == SubSeq(items, Max(1, Len(items) - 2), Len(items))

-----------------------------------------------------------------------------
(* The inputs the operations are called with *)

\* component i of the sample path 44'/52752'/0'/0/0/...
PathComponent(i) ==
    IF i = 1 THEN [hardened |-> TRUE, index |-> 44]
    ELSE IF i = 2 THEN [hardened |-> TRUE, index |-> 52752]
    ELSE [hardened |-> (i = 3), index |-> 0]

\* splitPath(path) for the prefixes of the sample path
Paths == { [i \in 1..n |-> PathComponent(i)] : n \in 0..MaxPathLen }

\* splitPath(path) for two paths of 37 and 38 components: with 37 the header
\* of a transaction leaves one byte of the first frame, with 38 none
LongPaths == { [i \in 1..n |-> PathComponent(i)] : n \in { 37, 38 } }

\* splitPath of the path LEDGER.getAccount builds: 44'/type'/account'/0/index
AccountPath == [i \in 1..5 |-> PathComponent(i)]

\* n bytes of transaction data or of a message
DataBytes(n) == [i \in 1..n |-> (i * 7) % 256]

Messages == { DataBytes(n) : n \in 0..MaxDataLen }

TxKinds == { "legacy", "eip155", "celo155" }

ToAddress == [i \in 1..20 |-> 16 + i]

\* the fields of an unsigned transaction: six for a legacy transaction, nine
\* with the EIP 155 fields (chain id, empty r, empty s), twelve for a Celo
\* transaction, whose chain id 42220 takes two bytes
TxFields(kind, n) ==
    IF kind = "legacy"
    THEN << << 1 >>, << 2 >>, << 82, 8 >>, ToAddress, << 4 >>, DataBytes(n) >>
    ELSE IF kind = "eip155"
    THEN << << 1 >>, << 2 >>, << 82, 8 >>, ToAddress, << 4 >>, DataBytes(n),
            << 1 >>, << >>, << >> >>
    ELSE << << 1 >>, << 2 >>, << 82, 8 >>, << >>, << >>, << >>, ToAddress,
            << 4 >>, DataBytes(n), << 164, 236 >>, << >>, << >> >>

\* Buffer.from(rawTxHex, "hex") for the transactions above
RawTransactions ==
    { RlpEncode(TxFields(kind, n)) : kind \in TxKinds, n \in 0..MaxDataLen }

Booleans == { TRUE, FALSE }

-----------------------------------------------------------------------------
(* signTransaction and signPersonalMessage: the chunking loops *)

\* rlpOffset as signTransaction computes it from rawTx
ComputeRlpOffset(rawTx) ==
    LET rlpTx == RlpDecode(rawTx)
    IN  IF Len(rlpTx) > 6
        THEN Len(rawTx) - (Len(RlpEncode(LastThree(rlpTx))) - 1)
        ELSE 0

\* bytes frame 0 holds before the payload
HeaderSize(o, ps) ==
    IF o = "signTransaction" THEN 1 + Len(ps) * 4 ELSE 1 + Len(ps) * 4 + 4

\* maxChunkSize without the header taken off for the first chunk
maxChunkSize_noHeader(o, ps, off) == MaxChunk

\* const maxChunkSize = offset === 0 ? 150 - 1 - paths.length * 4 [- 4] : 150
maxChunkSize(o, ps, off) ==
    IF off = 0 THEN MaxChunk - HeaderSize(o, ps) ELSE MaxChunk

\* InitialChunkSize never cut down to what is left of the payload
InitialChunkSize_uncut(o, ps, off, len) == maxChunkSize(o, ps, off)

\* the conditional expression that initialises chunkSize
InitialChunkSize(o, ps, off, len) ==
    IF off + maxChunkSize(o, ps, off) > len
    THEN len - off
    ELSE maxChunkSize(o, ps, off)

\* EndsOnMarker with the test left out
EndsOnMarker_never(o, off, size, marker) == FALSE

\* EndsOnMarker true of every chunk that ends at or before the marker
EndsOnMarker_orBefore(o, off, size, marker) ==
    o = "signTransaction" /\ marker # 0 /\ off + size <= marker

\* signTransaction only: the chunk must not end right on the EIP 155 marker
EndsOnMarker(o, off, size, marker) ==
    o = "signTransaction" /\ marker # 0 /\ off + size = marker

\* chunkSize with the chunk made one byte longer instead of shorter
chunkSize_grown(o, ps, off, len, marker) ==
    LET size == InitialChunkSize(o, ps, off, len)
    IN  IF EndsOnMarker(o, off, size, marker) THEN size + 1 ELSE size

chunkSize(o, ps, off, len, marker) ==
    LET size == InitialChunkSize(o, ps, off, len)
    IN  IF EndsOnMarker(o, off, size, marker) THEN size - 1 ELSE size

\* buffer.writeUInt32BE(value, at) on a buffer of n bytes throws a RangeError
\* unless the four bytes lie within the buffer
WriteInRange(n, at) == at + 4 <= n

\* every writeUInt32BE of the header of frame 0 lies within its n bytes
HeaderWritesInRange(o, ps, n) ==
    /\ \A index \in 0..(Len(ps) - 1) : WriteInRange(n, 1 + 4 * index)
    /\ o = "signPersonalMessage" => WriteInRange(n, 1 + 4 * Len(ps))

\* FirstFrameHeader with the length of the chunk as the length prefix
FirstFrameHeader_chunkLength(o, ps, data, size) ==
    IF o = "signTransaction"
    THEN WritePath(Alloc(1 + Len(ps) * 4 + size), ps)
    ELSE Copy(BE32(size),
              WritePath(Alloc(1 + Len(ps) * 4 + 4 + size), ps),
              1 + 4 * Len(ps))

\* the header of frame 0: the path and, for a message, its total length
FirstFrameHeader(o, ps, data, size) ==
    IF o = "signTransaction"
    THEN WritePath(Alloc(1 + Len(ps) * 4 + size), ps)
    ELSE Copy(BE32(Len(data)),
              WritePath(Alloc(1 + Len(ps) * 4 + 4 + size), ps),
              1 + 4 * Len(ps))

\* ChunkBuffer with the source range of every copy starting at 0
ChunkBuffer_fromStart(o, ps, data, off, size) ==
    IF off = 0
    THEN Copy(Slice(data, 0, size),
              FirstFrameHeader(o, ps, data, size), HeaderSize(o, ps))
    ELSE Copy(Slice(data, 0, size), Alloc(size), 0)

\* the buffer one iteration of the loop pushes on toSend
ChunkBuffer(o, ps, data, off, size) ==
    IF off = 0
    THEN Copy(Slice(data, off, off + size),
              FirstFrameHeader(o, ps, data, size), HeaderSize(o, ps))
    ELSE Copy(Slice(data, off, off + size), Alloc(size), 0)

-----------------------------------------------------------------------------
(* The fixed-shape frames *)

\* the closed set of quantization types and their tags
starkQuantizationTypeMap ==
    [ eth |-> 1, erc20 |-> 2, erc721 |-> 3,
      erc20mintable |-> 4, erc721mintable |-> 5 ]

\* type in starkQuantizationTypeMap
KnownQuantizationType(type) == type \in DOMAIN starkQuantizationTypeMap

\* maybeHexBuffer(str) is null for a null or empty string
IsNull(str) == str = << >>

\* Buffer.from(bn.toString(16).padStart(width, "0"), "hex")
BigNumberBytes(bn, width) == HexDecode(PadStart(bn, width))

\* if (hex) hex.copy(buffer, at)
CopyIfPresent(str, buf, at) ==
    IF IsNull(str) THEN buf ELSE Copy(hexBuffer(str), buf, at)

\* CopyBigNumberIfPresent leaving the 32 bytes of a null magnitude out
CopyBigNumberIfPresent_omitted(bn, buf, at) ==
    IF IsNull(bn) THEN SubSeq(buf, 1, at) \o SubSeq(buf, at + 33, Len(buf))
    ELSE Copy(BigNumberBytes(bn, 64), buf, at)

\* if (bn) Buffer.from(...).copy(buffer, at)
CopyBigNumberIfPresent(bn, buf, at) ==
    IF IsNull(bn) THEN buf ELSE Copy(BigNumberBytes(bn, 64), buf, at)

\* getAddress, starkGetPublicKey, eth2GetPublicKey: the path alone
PathBuffer(ps) == WritePath(Alloc(1 + Len(ps) * 4), ps)

signEIP712HashedMessageBuffer(ps, domainSeparatorHex, hashStructMessageHex) ==
    LET at == 1 + 4 * Len(ps)
        b0 == WritePath(Alloc(1 + Len(ps) * 4 + 32 + 32), ps)
        b1 == Copy(hexBuffer(domainSeparatorHex), b0, at)
    IN  Copy(hexBuffer(hashStructMessageHex), b1, at + 32)

starkSignOrderBuffer(ps, a) ==
    LET at == 1 + 4 * Len(ps)
        b0 == WritePath(
                  Alloc(1 + Len(ps) * 4 + 20 + 32 + 20 + 32 + 4 + 4 + 8 + 8 + 4 + 4),
                  ps)
        b1 == CopyIfPresent(a.sourceTokenAddress, b0, at)
        b2 == Copy(BigNumberBytes(a.sourceQuantization, 64), b1, at + 20)
        b3 == CopyIfPresent(a.destinationTokenAddress, b2, at + 52)
        b4 == Copy(BigNumberBytes(a.destinationQuantization, 64), b3, at + 72)
        b5 == Copy(BE32(a.sourceVault), b4, at + 104)
        b6 == Copy(BE32(a.destinationVault), b5, at + 108)
        b7 == Copy(BigNumberBytes(a.amountSell, 16), b6, at + 112)
        b8 == Copy(BigNumberBytes(a.amountBuy, 16), b7, at + 120)
        b9 == Copy(BE32(a.nonce), b8, at + 128)
    IN  Copy(BE32(a.timestamp), b9, at + 132)

starkSignOrder_v2Buffer(ps, a) ==
    LET at == 1 + 4 * Len(ps)
        b0 == WritePath(
                  Alloc(1 + Len(ps) * 4 + 1 + 20 + 32 + 32 + 1 + 20 + 32 + 32
                        + 4 + 4 + 8 + 8 + 4 + 4),
                  ps)
        b1 == Copy(<< starkQuantizationTypeMap[a.sourceQuantizationType] >>,
                   b0, at)
        b2 == CopyIfPresent(a.sourceTokenAddress, b1, at + 1)
        b3 == CopyBigNumberIfPresent(a.sourceQuantization, b2, at + 21)
        b4 == CopyBigNumberIfPresent(a.sourceMintableBlobOrTokenId, b3, at + 53)
        b5 == Copy(<< starkQuantizationTypeMap[a.destinationQuantizationType] >>,
                   b4, at + 85)
        b6 == CopyIfPresent(a.destinationTokenAddress, b5, at + 86)
        b7 == CopyBigNumberIfPresent(a.destinationQuantization, b6, at + 106)
        b8 == CopyBigNumberIfPresent(a.destinationMintableBlobOrTokenId,
                                     b7, at + 138)
        b9 == Copy(BE32(a.sourceVault), b8, at + 170)
        b10 == Copy(BE32(a.destinationVault), b9, at + 174)
        b11 == Copy(BigNumberBytes(a.amountSell, 16), b10, at + 178)
        b12 == Copy(BigNumberBytes(a.amountBuy, 16), b11, at + 186)
        b13 == Copy(BE32(a.nonce), b12, at + 194)
    IN  Copy(BE32(a.timestamp), b13, at + 198)

starkSignTransferBuffer(ps, a) ==
    LET at == 1 + 4 * Len(ps)
        b0 == WritePath(
                  Alloc(1 + Len(ps) * 4 + 20 + 32 + 32 + 4 + 4 + 8 + 4 + 4), ps)
        b1 == CopyIfPresent(a.transferTokenAddress, b0, at)
        b2 == Copy(BigNumberBytes(a.transferQuantization, 64), b1, at + 20)
        b3 == Copy(hexBuffer(a.targetPublicKey), b2, at + 52)
        b4 == Copy(BE32(a.sourceVault), b3, at + 84)
        b5 == Copy(BE32(a.destinationVault), b4, at + 88)
        b6 == Copy(BigNumberBytes(a.amountTransfer, 16), b5, at + 92)
        b7 == Copy(BE32(a.nonce), b6, at + 100)
    IN  Copy(BE32(a.timestamp), b7, at + 104)

\* the extra bytes allocated for a conditional transfer
ConditionSize(a) == IF IsNull(a.conditionalTransferAddress) THEN 0 ELSE 32 + 20

\* TransferInstruction chosen by the fact instead of the address
TransferInstruction_byFact(a) == IF IsNull(a.conditionalTransferFact) THEN 4 ELSE 5

\* param1 of starkSignTransfer_v2
TransferInstruction(a) == IF IsNull(a.conditionalTransferAddress) THEN 4 ELSE 5

\* WriteCondition writing the address whenever it is given
WriteCondition_addressAlone(a, buf, at) ==
    IF IsNull(a.conditionalTransferAddress) THEN buf
    ELSE Copy(hexBuffer(a.conditionalTransferAddress),
              CopyBigNumberIfPresent(a.conditionalTransferFact, buf, at),
              at + 32)

\* the fact and the address of the condition, written from source offset at
\* when both are given
WriteCondition(a, buf, at) ==
    IF ~IsNull(a.conditionalTransferAddress)
       /\ ~IsNull(a.conditionalTransferFact)
    THEN Copy(hexBuffer(a.conditionalTransferAddress),
              Copy(BigNumberBytes(a.conditionalTransferFact, 64), buf, at),
              at + 32)
    ELSE buf

starkSignTransfer_v2Buffer(ps, a) ==
    LET at == 1 + 4 * Len(ps)
        b0 == WritePath(
                  Alloc(1 + Len(ps) * 4 + 1 + 20 + 32 + 32 + 32 + 4 + 4 + 8 + 4 + 4
                        + ConditionSize(a)),
                  ps)
        b1 == Copy(<< starkQuantizationTypeMap[a.transferQuantizationType] >>,
                   b0, at)
        b2 == CopyIfPresent(a.transferTokenAddress, b1, at + 1)
        b3 == CopyBigNumberIfPresent(a.transferQuantization, b2, at + 21)
        b4 == CopyBigNumberIfPresent(a.transferMintableBlobOrTokenId, b3, at + 53)
        b5 == Copy(hexBuffer(a.targetPublicKey), b4, at + 85)
        b6 == Copy(BE32(a.sourceVault), b5, at + 117)
        b7 == Copy(BE32(a.destinationVault), b6, at + 121)
        b8 == Copy(BigNumberBytes(a.amountTransfer, 16), b7, at + 125)
        b9 == Copy(BE32(a.nonce), b8, at + 133)
        b10 == Copy(BE32(a.timestamp), b9, at + 137)
    IN  WriteCondition(a, b10, at + 141)

starkProvideQuantumBuffer(a) ==
    Copy(BigNumberBytes(a.operationQuantization, 64),
         CopyIfPresent(a.operationContract, Alloc(20 + 32), 0), 20)

starkProvideQuantum_v2Buffer(a) ==
    CopyBigNumberIfPresent(a.operationMintableBlobOrTokenId,
        CopyBigNumberIfPresent(a.operationQuantization,
            CopyIfPresent(a.operationContract, Alloc(20 + 32 + 32), 0), 20),
        52)

starkUnsafeSignBuffer(ps, hash) ==
    Copy(hexBuffer(hash), WritePath(Alloc(1 + Len(ps) * 4 + 32), ps),
         1 + 4 * Len(ps))

eth2SetWithdrawalIndexBuffer(withdrawalIndex) ==
    Copy(BE32(withdrawalIndex), Alloc(4), 0)

-----------------------------------------------------------------------------
(* Errors and results *)

NoError == [name |-> "none", statusCode |-> 0]

NoValue == [kind |-> "none"]

Pending == [state |-> "pending", value |-> NoValue, error |-> NoError]

Resolved(v) == [state |-> "resolved", value |-> v, error |-> NoError]

Rejected(e) == [state |-> "rejected", value |-> NoValue, error |-> e]

\* a failure of transport.send that carries the device's status code
StatusError(code) == [name |-> "TransportStatusError", statusCode |-> code]

\* a failure of transport.send that carries no status code
DisconnectedDevice == [name |-> "DisconnectedDevice", statusCode |-> 0]

\* what transport.send may reject with; 27013 is the refusal 0x6985
TransportErrors ==
    { StatusError(SW_6A80), StatusError(SW_6D00), StatusError(27013),
      DisconnectedDevice }

\* new EthAppPleaseEnableContractData("Please enable Contract data ...")
EthAppPleaseEnableContractData ==
    [name |-> "EthAppPleaseEnableContractData", statusCode |-> 0]

\* reading a field of the undefined `response`
TypeError == [name |-> "TypeError", statusCode |-> 0]

\* writeUInt32BE with an offset outside the buffer
RangeError == [name |-> "RangeError", statusCode |-> 0]

\* throw new Error("... invalid quantization type=...")
InvalidQuantizationType == [name |-> "Error", statusCode |-> 0]

\* remapTransactionRelatedErrors testing for the wrong status code
remapTransactionRelatedErrors_wrongCode(e) ==
    IF e.statusCode = SW_6D00 THEN EthAppPleaseEnableContractData ELSE e

remapTransactionRelatedErrors(e) ==
    IF e.statusCode = SW_6A80 THEN EthAppPleaseEnableContractData ELSE e

-----------------------------------------------------------------------------
(* What the transport may answer *)

\* the status word 0x9000 that ends every answer
StatusWord == << 144, 0 >>

\* a signature answer: the recovery byte, r, s and the status word
SigResponse(seed) ==
    << 27 + seed >> \o [i \in 1..32 |-> (seed * 64 + i) % 256]
    \o [i \in 1..32 |-> (seed * 64 + 32 + i) % 256] \o StatusWord

\* a getAddress answer: a 4-byte public key, a 4-character address, a chain code
AddressResponse ==
    << 4, 1, 2, 3, 4, 4, 97, 98, 99, 100 >> \o [i \in 1..32 |-> 200 + i]
    \o StatusWord

\* a signature answer of exactly 1 + 32 + 32 bytes
Signature65 == SubSeq(SigResponse(3), 1, 1 + 32 + 32)

Responses ==
    { SigResponse(1), SigResponse(2), Signature65, StatusWord, AddressResponse }

\* the answers tried for the frames of the two chunked operations
ChunkResponses == { SigResponse(1), Signature65, StatusWord }

-----------------------------------------------------------------------------
(* Parsing an answer *)

\* response[i]; -1 stands for undefined
At(resp, i) == IF i >= 0 /\ i < Len(resp) THEN resp[i + 1] ELSE -1

\* buf.toString("ascii"): the high bit of every byte is dropped
ToAscii(buf) == [i \in 1..Len(buf) |-> buf[i] % 128]

\* the operations that return { v, r, s } with v a hexadecimal string
\* (signTransaction) or a number (the two others)
SignatureOps == { "signTransaction", "signPersonalMessage",
                  "signEIP712HashedMessage" }

\* the operations that return { r, s }
StarkSignatureOps == { "starkSignOrder", "starkSignOrder_v2",
                       "starkSignTransfer", "starkSignTransfer_v2",
                       "starkUnsafeSign" }

\* the operations that return true, or false on status 0x6d00
SoftFallbackOps == { "provideERC20TokenInformation", "starkProvideQuantum",
                     "starkProvideQuantum_v2", "eth2SetWithdrawalIndex" }

\* RemapOps with the handler also on signPersonalMessage
RemapOps_both == { "signTransaction", "signPersonalMessage" }

\* the operations whose rejection handler remaps the error
RemapOps == { "signTransaction" }

ChunkedOps == { "signTransaction", "signPersonalMessage" }

AllOps ==
    SignatureOps \cup StarkSignatureOps \cup SoftFallbackOps
    \cup { "getAddress", "getAppConfiguration", "starkGetPublicKey",
           "eth2GetPublicKey" }

\* ParseSignature with s read from one byte too early
ParseSignature_overlap(o, resp) ==
    [ kind |-> "signature",
      v |-> IF o = "signTransaction" THEN ToHex(Slice(resp, 0, 1))
            ELSE Slice(resp, 0, 1),
      r |-> ToHex(Slice(resp, 1, 1 + 32)),
      s |-> ToHex(Slice(resp, 32, 32 + 32)) ]

\* { v, r, s } of the three signature operations
ParseSignature(o, resp) ==
    [ kind |-> "signature",
      v |-> IF o = "signTransaction" THEN ToHex(Slice(resp, 0, 1))
            ELSE Slice(resp, 0, 1),
      r |-> ToHex(Slice(resp, 1, 1 + 32)),
      s |-> ToHex(Slice(resp, 1 + 32, 1 + 32 + 32)) ]

\* { r, s } of the Stark signature operations
ParseStarkSignature(resp) ==
    [ kind |-> "starkSignature",
      r |-> ToHex(Slice(resp, 1, 1 + 32)),
      s |-> ToHex(Slice(resp, 1 + 32, 1 + 32 + 32)) ]

\* getAddress: a slice whose end is not a number is empty
ParseAddress(resp, boolChaincode) ==
    LET publicKeyLength == At(resp, 0)
        addressLength ==
            IF publicKeyLength < 0 THEN -1 ELSE At(resp, 1 + publicKeyLength)
        keyEnd == 1 + publicKeyLength
    IN  [ kind |-> "address",
          publicKey |-> IF publicKeyLength < 0 THEN << >>
                        ELSE ToHex(Slice(resp, 1, keyEnd)),
          address |-> IF addressLength < 0 THEN << >>
                      ELSE ToAscii(Slice(resp, keyEnd + 1,
                                         keyEnd + 1 + addressLength)),
          hasChainCode |-> boolChaincode,
          chainCode |-> IF ~boolChaincode \/ addressLength < 0 THEN << >>
                        ELSE ToHex(Slice(resp, keyEnd + 1 + addressLength,
                                         keyEnd + 1 + addressLength + 32)) ]

\* getAppConfiguration: the flag bits of byte 0 and the three version bytes
ParseAppConfiguration(resp) ==
    [ kind |-> "configuration",
      arbitraryDataEnabled |-> At(resp, 0) % 2,
      erc20ProvisioningNecessary |-> ((At(resp, 0) \div 2) % 2) * 2,
      starkEnabled |-> ((At(resp, 0) \div 4) % 2) * 4,
      starkv2Supported |-> ((At(resp, 0) \div 8) % 2) * 8,
      version |-> << At(resp, 1), At(resp, 2), At(resp, 3) >> ]

\* starkGetPublicKey and eth2GetPublicKey: the answer without its status word
ParsePublicKey(o, resp) ==
    [ kind |-> "publicKey",
      publicKey |-> IF o = "eth2GetPublicKey"
                    THEN ToHex(Slice(resp, 0, Max(0, Len(resp) - 2)))
                    ELSE Slice(resp, 0, Max(0, Len(resp) - 2)) ]

True == [kind |-> "boolean", bool |-> TRUE]

False == [kind |-> "boolean", bool |-> FALSE]

\* the string LEDGER.getAccount returns after its catch block
EmptyString == [kind |-> "string", str |-> << >>]

\* LEDGER.getAccount: return response.address
getAccountReturn(address) == Resolved([kind |-> "string", str |-> address])

\* getAccountCatch letting the error through
getAccountCatch_rethrow(e) == Rejected(e)

\* LEDGER.getAccount: the catch block logs the error, "" is returned
getAccountCatch(e) == Resolved(EmptyString)

\* the fulfilment handler of each operation, given the answer it reads
OnFulfilled(o, resp, boolChaincode) ==
    IF o = "getAccount"
    THEN getAccountReturn(ParseAddress(resp, boolChaincode).address)
    ELSE IF o \in SoftFallbackOps THEN Resolved(True)
    ELSE IF o \in SignatureOps THEN Resolved(ParseSignature(o, resp))
    ELSE IF o \in StarkSignatureOps THEN Resolved(ParseStarkSignature(resp))
    ELSE IF o = "getAddress" THEN Resolved(ParseAddress(resp, boolChaincode))
    ELSE IF o = "getAppConfiguration" THEN Resolved(ParseAppConfiguration(resp))
    ELSE Resolved(ParsePublicKey(o, resp))

\* OnRejected with no soft fallback: every error is thrown again
OnRejected_noFallback(o, e) ==
    IF o \in RemapOps THEN Rejected(remapTransactionRelatedErrors(e))
    ELSE Rejected(e)

\* OnRejected with a fallback that does not look at the status code
OnRejected_anyStatus(o, e) ==
    IF o \in SoftFallbackOps THEN Resolved(False)
    ELSE IF o \in RemapOps THEN Rejected(remapTransactionRelatedErrors(e))
    ELSE Rejected(e)

\* the rejection handler of each operation; without one the error is passed on
OnRejected(o, e) ==
    IF o = "getAccount" THEN getAccountCatch(e)
    ELSE IF o \in SoftFallbackOps
    THEN IF e.statusCode = SW_6D00 THEN Resolved(False) ELSE Rejected(e)
    ELSE IF o \in RemapOps THEN Rejected(remapTransactionRelatedErrors(e))
    ELSE Rejected(e)

\* the fulfilment handler after foreach: `response` is undefined when no
\* frame was sent, and reading it throws
OnForeachFulfilled(o, resp, has) ==
    IF has THEN OnFulfilled(o, resp, FALSE) ELSE Rejected(TypeError)

\* OnApduResponse keeping the first answer
OnApduResponse_keepFirst(old, apduResponse) ==
    IF old = << >> THEN apduResponse ELSE old

\* .then((apduResponse) => { response = apduResponse; })
OnApduResponse(old, apduResponse) == apduResponse

\* the callback with a block body that returns nothing
CallbackReturnsPromise_dropped == FALSE

\* the callback given to foreach returns the promise of its send, so foreach
\* waits for the answer before it calls the callback again
CallbackReturnsPromise == TRUE

\* the callback with a rejection handler that swallows the error
CallbackPassesRejection_swallowed == FALSE

\* the callback has no rejection handler: a failed send rejects its promise
CallbackPassesRejection == TRUE

\* FrameParam1 with the two values exchanged
FrameParam1_swapped(i) == IF i = 0 THEN P1_MORE ELSE P1_FIRST

\* param1 of frame i: i === 0 ? 0x00 : 0x80
FrameParam1(i) == IF i = 0 THEN P1_FIRST ELSE P1_MORE

\* the instruction byte of the two chunked operations
ChunkedInstruction(o) == IF o = "signTransaction" THEN 4 ELSE 8

\* foreach (utils): the callback is called for the next element once the
\* promise the previous call returned has resolved
ForeachMayProceed == CallbackReturnsPromise => inflight = {}

-----------------------------------------------------------------------------
(* The arguments of the fixed-shape operations *)

\* a 20-byte address as 40 hexadecimal digits
TokenAddress == [i \in 1..40 |-> (i % 15) + 1]

\* a 32-byte value as 64 hexadecimal digits
Hash32 == [i \in 1..64 |-> (i * 3) % 16]

\* null or an address
MaybeAddresses == { << >>, TokenAddress }

\* BigNumber arguments: 1 and 0x1f4 as toString(16) prints them
BigNumbers == { << 1 >>, << 1, 15, 4 >> }

MaybeBigNumbers == { << >> } \cup BigNumbers

\* a BigNumber of 33 bytes: 66 digits, one byte more than a magnitude field
WideMagnitude == [i \in 1..66 |-> (i % 15) + 1]

\* a BigNumber of 9 bytes: 18 digits, one byte more than an amount field
WideAmount == [i \in 1..18 |-> (i % 15) + 1]

QuantizationTypes ==
    { "eth", "erc20", "erc721", "erc20mintable", "erc721mintable", "erc1155" }

\* token metadata blobs of provideERC20TokenInformation
TokenBlobs == { << 3, 90, 82, 88 >>, << >> }

OrderArgs ==
    { [ sourceTokenAddress |-> t, sourceQuantization |-> q,
        destinationTokenAddress |-> dt,
        destinationQuantization |-> << 1 >>,
        sourceVault |-> 1, destinationVault |-> 2,
        amountSell |-> sell, amountBuy |-> << 1 >>,
        nonce |-> 7, timestamp |-> 65536 ]
      : t \in MaybeAddresses, q \in BigNumbers \cup { WideMagnitude },
        dt \in MaybeAddresses, sell \in { << 1, 15, 4 >>, WideAmount } }

OrderArgs_v2 ==
    { [ sourceTokenAddress |-> t, sourceQuantizationType |-> ty,
        sourceQuantization |-> q, sourceMintableBlobOrTokenId |-> m,
        destinationTokenAddress |-> TokenAddress,
        destinationQuantizationType |-> dty,
        destinationQuantization |-> << >>,
        destinationMintableBlobOrTokenId |-> << 1, 15, 4 >>,
        sourceVault |-> 1, destinationVault |-> 2,
        amountSell |-> << 1, 15, 4 >>, amountBuy |-> << 1 >>,
        nonce |-> 7, timestamp |-> 65536 ]
      : t \in MaybeAddresses, ty \in QuantizationTypes,
        q \in MaybeBigNumbers, m \in { << >>, << 1, 15, 4 >> },
        dty \in { "erc721", "erc1155" } }

TransferArgs ==
    { [ transferTokenAddress |-> t, transferQuantization |-> q,
        targetPublicKey |-> Hash32, sourceVault |-> 1, destinationVault |-> 2,
        amountTransfer |-> << 1, 15, 4 >>, nonce |-> 7, timestamp |-> 65536 ]
      : t \in MaybeAddresses, q \in BigNumbers }

TransferArgs_v2 ==
    { [ transferTokenAddress |-> t, transferQuantizationType |-> ty,
        transferQuantization |-> q, transferMintableBlobOrTokenId |-> m,
        targetPublicKey |-> Hash32, sourceVault |-> 1, destinationVault |-> 2,
        amountTransfer |-> << 1, 15, 4 >>, nonce |-> 7, timestamp |-> 65536,
        conditionalTransferAddress |-> ca, conditionalTransferFact |-> cf ]
      : t \in MaybeAddresses, ty \in QuantizationTypes,
        q \in { << >>, << 1, 15, 4 >> }, m \in { << >>, << 1 >> },
        ca \in MaybeAddresses, cf \in { << >>, << 1, 15, 4 >> } }

QuantumArgs ==
    { [ operationContract |-> t, operationQuantization |-> q ]
      : t \in MaybeAddresses, q \in BigNumbers \cup { WideMagnitude } }

QuantumArgs_v2 ==
    { [ operationContract |-> t, operationQuantizationType |-> ty,
        operationQuantization |-> q, operationMintableBlobOrTokenId |-> m ]
      : t \in MaybeAddresses, ty \in QuantizationTypes,
        q \in MaybeBigNumbers, m \in MaybeBigNumbers }

WithdrawalIndexes == { 0, 1, 65537 }

-----------------------------------------------------------------------------
(* The state machine *)

\* one call of transport.send(cla, ins, p1, p2, data) for frame i
Apdu(i, cla, ins, p1, p2, data) ==
    [ i |-> i, cla |-> cla, ins |-> ins, p1 |-> p1, p2 |-> p2, data |-> data ]

NoAnswer == [i |-> -1, data |-> << >>]

NoFailure == [i |-> -1, error |-> NoError]

\* the operation in progress takes no record of arguments
NoArgs == [none |-> TRUE]

\* the calls that may be in progress on one instance at the same time
Callers == { 1, 2 }

\* a caller that has not called yet
NoCall ==
    [pc |-> "none", op |-> "none", toSend |-> << >>, idx |-> 0,
     response |-> << >>, hasResponse |-> FALSE, inflight |-> {},
     received |-> << >>, outcome |-> [state |-> "none", value |-> NoValue,
                                      error |-> NoError]]

Init ==
    /\ pc = "idle"
    /\ op = "none"
    /\ paths = << >>
    /\ args = NoArgs
    /\ payload = << >>
    /\ rlpOffset = 0
    /\ offset = 0
    /\ toSend = << >>
    /\ idx = 0
    /\ response = << >>
    /\ hasResponse = FALSE
    /\ inflight = {}
    /\ sent = << >>
    /\ lastReceived = NoAnswer
    /\ failure = NoFailure
    /\ outcome = [state |-> "none", value |-> NoValue, error |-> NoError]
    /\ calls = [c \in Callers |-> NoCall]

\* a fixed-shape operation: the frame is built and passed to transport.send
\* in the call itself
SendSingle(o, ps, a, cla, ins, p1, p2, buffer) ==
    /\ pc = "idle"
    /\ pc' = "await"
    /\ op' = o
    /\ paths' = ps
    /\ args' = a
    /\ toSend' = << buffer >>
    /\ idx' = 1
    /\ inflight' = {0}
    /\ sent' = << Apdu(0, cla, ins, p1, p2, buffer) >>
    /\ outcome' = Pending
    /\ UNCHANGED calls
    /\ UNCHANGED << payload, rlpOffset, offset, response, hasResponse,
                    lastReceived, failure >>

\* an operation that throws before it builds a frame
ThrowSynchronously(o, a, e) ==
    /\ pc = "idle"
    /\ pc' = "done"
    /\ op' = o
    /\ args' = a
    /\ outcome' = Rejected(e)
    /\ UNCHANGED calls
    /\ UNCHANGED << paths, payload, rlpOffset, offset, toSend, idx, response,
                    hasResponse, inflight, sent, lastReceived, failure >>

\* a chunked operation up to the first test of its loop
StartChunked(o, ps, data, marker) ==
    /\ pc = "idle"
    /\ pc' = IF Len(data) = 0 THEN "foreach" ELSE "chunk"
    /\ op' = o
    /\ paths' = ps
    /\ args' = NoArgs
    /\ payload' = data
    /\ rlpOffset' = marker
    /\ offset' = 0
    /\ toSend' = << >>
    /\ idx' = 0
    /\ outcome' = Pending
    /\ UNCHANGED calls
    /\ UNCHANGED << response, hasResponse, inflight, sent, lastReceived,
                    failure >>

getAddress(ps, boolDisplay, boolChaincode) ==
    SendSingle("getAddress", ps, NoArgs, CLA_ETH, 2, IF boolDisplay THEN 1 ELSE 0,
               IF boolChaincode THEN 1 ELSE 0, PathBuffer(ps))

provideERC20TokenInformation(data) ==
    SendSingle("provideERC20TokenInformation", << >>, NoArgs, CLA_ETH, 10, 0, 0,
               data)

signTransaction(ps, rawTx) ==
    StartChunked("signTransaction", ps, rawTx, ComputeRlpOffset(rawTx))

getAppConfiguration ==
    SendSingle("getAppConfiguration", << >>, NoArgs, CLA_ETH, 6, 0, 0, << >>)

signPersonalMessage(ps, message) ==
    StartChunked("signPersonalMessage", ps, message, 0)

signEIP712HashedMessage(ps, domainSeparatorHex, hashStructMessageHex) ==
    SendSingle("signEIP712HashedMessage", ps, NoArgs, CLA_ETH, 12, 0, 0,
               signEIP712HashedMessageBuffer(ps, domainSeparatorHex,
                                             hashStructMessageHex))

starkGetPublicKey(ps, boolDisplay) ==
    SendSingle("starkGetPublicKey", ps, NoArgs, CLA_STARK, 2,
               IF boolDisplay THEN 1 ELSE 0, 0, PathBuffer(ps))

starkSignOrder(ps, a) ==
    SendSingle("starkSignOrder", ps, a, CLA_STARK, 4, 1, 0,
               starkSignOrderBuffer(ps, a))

starkSignOrder_v2(ps, a) ==
    IF KnownQuantizationType(a.sourceQuantizationType)
       /\ KnownQuantizationType(a.destinationQuantizationType)
    THEN SendSingle("starkSignOrder_v2", ps, a, CLA_STARK, 4, 3, 0,
                    starkSignOrder_v2Buffer(ps, a))
    ELSE ThrowSynchronously("starkSignOrder_v2", a, InvalidQuantizationType)

starkSignTransfer(ps, a) ==
    SendSingle("starkSignTransfer", ps, a, CLA_STARK, 4, 2, 0,
               starkSignTransferBuffer(ps, a))

starkSignTransfer_v2(ps, a) ==
    IF KnownQuantizationType(a.transferQuantizationType)
    THEN SendSingle("starkSignTransfer_v2", ps, a, CLA_STARK, 4,
                    TransferInstruction(a), 0,
                    starkSignTransfer_v2Buffer(ps, a))
    ELSE ThrowSynchronously("starkSignTransfer_v2", a,
                            InvalidQuantizationType)

starkProvideQuantum(a) ==
    SendSingle("starkProvideQuantum", << >>, a, CLA_STARK, 8, 0, 0,
               starkProvideQuantumBuffer(a))

\* starkProvideQuantum_v2 without the test of the quantization type
starkProvideQuantum_v2_unchecked(a) ==
    SendSingle("starkProvideQuantum_v2", << >>, a, CLA_STARK, 8,
               IF KnownQuantizationType(a.operationQuantizationType)
               THEN starkQuantizationTypeMap[a.operationQuantizationType]
               ELSE 0,
               0, starkProvideQuantum_v2Buffer(a))

starkProvideQuantum_v2(a) ==
    IF KnownQuantizationType(a.operationQuantizationType)
    THEN SendSingle("starkProvideQuantum_v2", << >>, a, CLA_STARK, 8,
                    starkQuantizationTypeMap[a.operationQuantizationType], 0,
                    starkProvideQuantum_v2Buffer(a))
    ELSE ThrowSynchronously("starkProvideQuantum_v2", a,
                            InvalidQuantizationType)

starkUnsafeSign(ps, hash) ==
    SendSingle("starkUnsafeSign", ps, NoArgs, CLA_STARK, 10, 0, 0,
               starkUnsafeSignBuffer(ps, hash))

eth2GetPublicKey(ps, boolDisplay) ==
    SendSingle("eth2GetPublicKey", ps, NoArgs, CLA_ETH, 14,
               IF boolDisplay THEN 1 ELSE 0, 0, PathBuffer(ps))

eth2SetWithdrawalIndex(withdrawalIndex) ==
    SendSingle("eth2SetWithdrawalIndex", << >>, NoArgs, CLA_ETH, 16, 0, 0,
               eth2SetWithdrawalIndexBuffer(withdrawalIndex))

\* LEDGER.getAccount(path, transport): getAddress of a new Ledger instance
\* with the path alone, inside try / catch
getAccount ==
    SendSingle("getAccount", AccountPath, NoArgs, CLA_ETH, 2, 0, 0,
               PathBuffer(AccountPath))

\* one iteration of while (offset !== rawTx.length) { ... }
ChunkStep ==
    /\ pc = "chunk"
    /\ offset # Len(payload)
    /\ Len(toSend) < MaxFrames
    /\ LET size == chunkSize(op, paths, offset, Len(payload), rlpOffset)
       IN  IF offset = 0
              /\ ~HeaderWritesInRange(op, paths, HeaderSize(op, paths) + size)
           THEN /\ pc' = "done"
                /\ outcome' = Rejected(RangeError)
                /\ UNCHANGED << toSend, offset >>
           ELSE /\ toSend' = Append(toSend, ChunkBuffer(op, paths, payload,
                                                        offset, size))
                /\ offset' = offset + size
                /\ pc' = IF offset + size = Len(payload) THEN "foreach"
                         ELSE "chunk"
                /\ UNCHANGED outcome
    /\ UNCHANGED calls
    /\ UNCHANGED << op, paths, args, payload, rlpOffset, idx, response,
                    hasResponse, inflight, sent, lastReceived, failure >>

\* ForeachSend handing frame 0 to transport.send a second time
ForeachSend_again ==
    /\ pc = "foreach"
    /\ idx < Len(toSend)
    /\ ForeachMayProceed
    /\ sent' = Append(sent, Apdu(idx, CLA_ETH, ChunkedInstruction(op),
                                 FrameParam1(idx), 0, toSend[idx + 1]))
    /\ inflight' = inflight \cup {idx}
    /\ idx' = IF Len(sent) = 0 THEN idx ELSE idx + 1
    /\ UNCHANGED calls
    /\ UNCHANGED << pc, op, paths, args, payload, rlpOffset, offset, toSend,
                    response, hasResponse, lastReceived, failure, outcome >>

\* foreach calls the callback on frame idx, which passes it to transport.send
ForeachSend ==
    /\ pc = "foreach"
    /\ idx < Len(toSend)
    /\ ForeachMayProceed
    /\ sent' = Append(sent, Apdu(idx, CLA_ETH, ChunkedInstruction(op),
                                 FrameParam1(idx), 0, toSend[idx + 1]))
    /\ inflight' = inflight \cup {idx}
    /\ idx' = idx + 1
    /\ UNCHANGED calls
    /\ UNCHANGED << pc, op, paths, args, payload, rlpOffset, offset, toSend,
                    response, hasResponse, lastReceived, failure, outcome >>

\* foreach has gone through every frame: the fulfilment handler runs
ForeachDone ==
    /\ pc = "foreach"
    /\ idx = Len(toSend)
    /\ ForeachMayProceed
    /\ outcome' = OnForeachFulfilled(op, response, hasResponse)
    /\ pc' = "done"
    /\ UNCHANGED calls
    /\ UNCHANGED << op, paths, args, payload, rlpOffset, offset, toSend, idx,
                    response, hasResponse, inflight, sent, lastReceived,
                    failure >>

\* the transport answers frame i
TransportResolve(i, apduResponse) ==
    /\ pc \in { "foreach", "await" }
    /\ i \in inflight
    /\ inflight' = inflight \ {i}
    /\ lastReceived' = [i |-> i, data |-> apduResponse]
    /\ response' = OnApduResponse(response, apduResponse)
    /\ hasResponse' = TRUE
    /\ IF pc = "await"
       THEN /\ outcome' = OnFulfilled(op, apduResponse, sent[1].p2 = 1)
            /\ pc' = "done"
       ELSE UNCHANGED << outcome, pc >>
    /\ UNCHANGED calls
    /\ UNCHANGED << op, paths, args, payload, rlpOffset, offset, toSend, idx,
                    sent, failure >>

\* the transport fails on frame i
TransportReject(i, e) ==
    /\ pc \in { "foreach", "await" }
    /\ i \in inflight
    /\ inflight' = inflight \ {i}
    /\ failure' = IF failure.i < 0 THEN [i |-> i, error |-> e] ELSE failure
    /\ IF pc = "await" \/ CallbackPassesRejection
       THEN /\ outcome' = OnRejected(op, e)
            /\ pc' = "done"
       ELSE UNCHANGED << outcome, pc >>
    /\ UNCHANGED calls
    /\ UNCHANGED << op, paths, args, payload, rlpOffset, offset, toSend, idx,
                    response, hasResponse, sent, lastReceived >>

\* the caller has its result; the next call starts from a fresh state
Return ==
    /\ pc = "done"
    /\ pc' = "idle"
    /\ op' = "none"
    /\ paths' = << >>
    /\ args' = NoArgs
    /\ payload' = << >>
    /\ rlpOffset' = 0
    /\ offset' = 0
    /\ toSend' = << >>
    /\ idx' = 0
    /\ response' = << >>
    /\ hasResponse' = FALSE
    /\ inflight' = {}
    /\ sent' = << >>
    /\ lastReceived' = NoAnswer
    /\ failure' = NoFailure
    /\ outcome' = [state |-> "none", value |-> NoValue, error |-> NoError]
    /\ UNCHANGED calls

\* the caller invokes one public method
Call ==
    /\ pc = "idle"
    /\ \/ \E ps \in Paths, d \in Booleans, c \in Booleans : getAddress(ps, d, c)
       \/ \E data \in TokenBlobs : provideERC20TokenInformation(data)
       \/ \E ps \in Paths \cup LongPaths, rawTx \in RawTransactions :
              signTransaction(ps, rawTx)
       \/ getAppConfiguration
       \/ \E ps \in Paths \cup LongPaths, message \in Messages :
              signPersonalMessage(ps, message)
       \/ \E ps \in Paths : signEIP712HashedMessage(ps, Hash32, Hash32)
       \/ \E ps \in Paths, d \in Booleans : starkGetPublicKey(ps, d)
       \/ \E ps \in Paths, a \in OrderArgs : starkSignOrder(ps, a)
       \/ \E ps \in Paths, a \in OrderArgs_v2 : starkSignOrder_v2(ps, a)
       \/ \E ps \in Paths, a \in TransferArgs : starkSignTransfer(ps, a)
       \/ \E ps \in Paths, a \in TransferArgs_v2 : starkSignTransfer_v2(ps, a)
       \/ \E a \in QuantumArgs : starkProvideQuantum(a)
       \/ \E a \in QuantumArgs_v2 : starkProvideQuantum_v2(a)
       \/ \E ps \in Paths : starkUnsafeSign(ps, Hash32)
       \/ \E ps \in Paths, d \in Booleans : eth2GetPublicKey(ps, d)
       \/ \E w \in WithdrawalIndexes : eth2SetWithdrawalIndex(w)
       \/ getAccount

Transport ==
    \/ \E i \in inflight : \E r \in
           (IF op \in ChunkedOps THEN ChunkResponses ELSE Responses) :
               TransportResolve(i, r)
    \/ \E i \in inflight, e \in TransportErrors : TransportReject(i, e)

Next == Call \/ ChunkStep \/ ForeachSend \/ ForeachDone \/ Transport \/ Return

Spec == Init /\ [][Next]_vars

-----------------------------------------------------------------------------
(* Two calls in progress on one instance *)

\* the path and the data of the calls made at the same time: a transaction
\* and a message of two frames each, and a message of one frame
ConcurrentInputs ==
    { [op |-> "signTransaction", ps |-> [i \in 1..2 |-> PathComponent(i)],
       data |-> RlpEncode(TxFields("eip155", MaxChunk + 10))],
      [op |-> "signPersonalMessage", ps |-> [i \in 1..2 |-> PathComponent(i)],
       data |-> DataBytes(MaxChunk + 50)],
      [op |-> "signPersonalMessage", ps |-> [i \in 1..2 |-> PathComponent(i)],
       data |-> DataBytes(10)] }

\* the answers the device gives to the frames of the two calls
ConcurrentResponses == { SigResponse(1), SigResponse(2) }

\* the while loop of a chunked operation, run to its end: it has no await,
\* so no other call runs between two of its iterations
RECURSIVE FramesFrom(_, _, _, _, _)
FramesFrom(o, ps, data, marker, off) ==
    IF off = Len(data) THEN << >>
    ELSE LET size == chunkSize(o, ps, off, Len(data), marker)
         IN  << ChunkBuffer(o, ps, data, off, size) >>
             \o FramesFrom(o, ps, data, marker, off + size)

\* one `response` variable on the instance, written by every call
ResponseSlot_shared(c) == 1

\* `let response` is declared in the body of the method: each call has its
\* own variable, which the callbacks of that call close over
ResponseSlot(c) == c

\* caller c invokes signTransaction or signPersonalMessage: the frames are
\* built and foreach is started
ConcurrentCall(c, in) ==
    /\ calls[c].pc = "none"
    /\ calls' = [calls EXCEPT ![c] =
                    [pc |-> "foreach", op |-> in.op,
                     toSend |-> FramesFrom(in.op, in.ps, in.data,
                                           IF in.op = "signTransaction"
                                           THEN ComputeRlpOffset(in.data)
                                           ELSE 0, 0),
                     idx |-> 0, response |-> << >>, hasResponse |-> FALSE,
                     inflight |-> {}, received |-> << >>,
                     outcome |-> Pending]]
    /\ UNCHANGED single

\* foreach of caller c passes its next frame to transport.send
ConcurrentSend(c) ==
    /\ calls[c].pc = "foreach"
    /\ calls[c].idx < Len(calls[c].toSend)
    /\ CallbackReturnsPromise => calls[c].inflight = {}
    /\ calls' = [calls EXCEPT ![c].inflight = @ \cup { calls[c].idx },
                              ![c].idx = @ + 1]
    /\ UNCHANGED single

\* the transport answers frame i of caller c: the callback of that send runs
ConcurrentResolve(c, i, apduResponse) ==
    /\ calls[c].pc = "foreach"
    /\ i \in calls[c].inflight
    /\ calls' = [calls EXCEPT
                    ![c].inflight = @ \ {i},
                    ![c].received = Append(@, apduResponse),
                    ![ResponseSlot(c)].response =
                        OnApduResponse(@, apduResponse),
                    ![ResponseSlot(c)].hasResponse = TRUE]
    /\ UNCHANGED single

\* the transport fails on frame i of caller c
ConcurrentReject(c, i, e) ==
    /\ calls[c].pc = "foreach"
    /\ i \in calls[c].inflight
    /\ calls' = [calls EXCEPT
                    ![c].inflight = @ \ {i},
                    ![c].pc = "done",
                    ![c].outcome = OnRejected(calls[c].op, e)]
    /\ UNCHANGED single

\* foreach of caller c has gone through every frame: its fulfilment handler
\* reads `response`
ConcurrentDone(c) ==
    /\ calls[c].pc = "foreach"
    /\ calls[c].idx = Len(calls[c].toSend)
    /\ calls[c].inflight = {}
    /\ calls' = [calls EXCEPT
                    ![c].pc = "done",
                    ![c].outcome =
                        OnForeachFulfilled(calls[c].op,
                                           calls[ResponseSlot(c)].response,
                                           calls[ResponseSlot(c)].hasResponse)]
    /\ UNCHANGED single

CallConcurrent == \E c \in Callers, in \in ConcurrentInputs : ConcurrentCall(c, in)

SendConcurrent == \E c \in Callers : ConcurrentSend(c)

TransportConcurrent ==
    \/ \E c \in Callers : \E i \in calls[c].inflight :
           \E r \in ConcurrentResponses : ConcurrentResolve(c, i, r)
    \/ \E c \in Callers : \E i \in calls[c].inflight :
           \E e \in TransportErrors : ConcurrentReject(c, i, e)

DoneConcurrent == \E c \in Callers : ConcurrentDone(c)

NextConcurrent ==
    CallConcurrent \/ SendConcurrent \/ TransportConcurrent \/ DoneConcurrent

SpecConcurrent == Init /\ [][NextConcurrent]_vars

-----------------------------------------------------------------------------
(* The claims *)

\* the part of frame j (1-based) that carries payload
PayloadRegion(j) ==
    IF j = 1 THEN SubSeq(toSend[1], HeaderSize(op, paths) + 1, Len(toSend[1]))
    ELSE toSend[j]

\* the payload regions of frames 1..n, one after the other
RECURSIVE ConcatRegions(_)
ConcatRegions(n) ==
    IF n = 0 THEN << >> ELSE ConcatRegions(n - 1) \o PayloadRegion(n)

\* the payload offset at which frame j ends
RECURSIVE BoundaryAfter(_)
BoundaryAfter(j) ==
    IF j = 0 THEN 0 ELSE BoundaryAfter(j - 1) + Len(PayloadRegion(j))

\* the chunking loop has run to its end
LoopFinished ==
    op \in ChunkedOps /\ pc \in { "foreach", "done" } /\ offset = Len(payload)

\* C1: the payload regions of the frames built so far, in order, are the
\* payload up to the loop's cursor, and once the loop has ended they are the
\* whole payload of signTransaction / signPersonalMessage, byte for byte
C1_ChunksReconstructPayload ==
    op \in ChunkedOps =>
        /\ ConcatRegions(Len(toSend)) = SubSeq(payload, 1, offset)
        /\ LoopFinished => ConcatRegions(Len(toSend)) = payload

\* a transaction split into three frames, one of them shortened by the
\* marker rule, has been chunked completely
C1_Witness ==
    /\ op = "signTransaction"
    /\ pc = "foreach"
    /\ Len(toSend) = 3
    /\ \E j \in 1..2 : BoundaryAfter(j) = rlpOffset - 1

\* C2: in signTransaction with a marker offset (rlpOffset # 0), no frame
\* ends at payload offset rlpOffset
C2_NoBoundaryOnMarker ==
    (op = "signTransaction" /\ rlpOffset # 0) =>
        \A j \in 1..Len(toSend) : BoundaryAfter(j) # rlpOffset

\* the full first chunk would have ended on the marker, and was shortened
C2_Witness ==
    /\ op = "signTransaction"
    /\ rlpOffset # 0
    /\ rlpOffset = maxChunkSize(op, paths, 0)
    /\ Len(toSend) >= 2
    /\ BoundaryAfter(1) = rlpOffset - 1

\* the header-only frame 0 of a message: the path and the length prefix
HeaderOnlyFrame == FirstFrameHeader("signPersonalMessage", paths, payload, 0)

\* C3: signPersonalMessage with an empty message sends exactly one frame,
\* the header-only frame
C3_EmptyMessageSendsOneFrame ==
    (op = "signPersonalMessage" /\ Len(payload) = 0 /\ pc = "done") =>
        /\ Len(sent) = 1
        /\ sent[1].data = HeaderOnlyFrame

\* C4: the frames of a chunked operation are sent in index order, each frame
\* is the one the loop built, and only the frame sent last can be in flight:
\* a frame is sent only after the send before it has been answered
C4_OneFrameInFlight ==
    op \in ChunkedOps =>
        /\ \A j \in 1..Len(sent) :
               sent[j].i = j - 1 /\ sent[j].data = toSend[j]
        /\ Cardinality(inflight) <= 1
        /\ inflight \subseteq { Len(sent) - 1 }

\* the third frame of a message is in flight
C4_Witness ==
    /\ op = "signPersonalMessage"
    /\ Len(sent) = 3
    /\ inflight = {2}

\* C5: the first frame sent has param1 0x00 and every later one 0x80
C5_ContinuationFlag ==
    op \in ChunkedOps =>
        \A j \in 1..Len(sent) :
            sent[j].p1 = (IF j = 1 THEN 0 ELSE 128)

\* three frames of a transaction have been sent
C5_Witness ==
    /\ op = "signTransaction"
    /\ Len(sent) = 3
    /\ sent[1].p1 = 0 /\ sent[2].p1 = 128 /\ sent[3].p1 = 128

\* C6: once the send of frame i of a chunked operation has failed, no frame
\* after i is sent and the operation is rejected
C6_FailureAborts ==
    (op \in ChunkedOps /\ failure.i >= 0) =>
        /\ \A j \in 1..Len(sent) : sent[j].i <= failure.i
        /\ pc = "done"
        /\ outcome.state = "rejected"

\* the first of three frames failed
C6_Witness ==
    /\ op \in ChunkedOps
    /\ Len(toSend) = 3
    /\ failure.i = 0
    /\ pc = "done"
    /\ Len(sent) = 1

\* C7: a chunked operation that resolves has sent every frame, and its
\* v, r, s are those of the answer to the last frame
C7_ResultFromLastResponse ==
    (op \in ChunkedOps /\ pc = "done" /\ outcome.state = "resolved") =>
        /\ Len(sent) = Len(toSend)
        /\ lastReceived.i = Len(toSend) - 1
        /\ outcome.value = ParseSignature(op, lastReceived.data)

\* a three-frame transaction resolved with the signature of its last answer
C7_Witness ==
    /\ op = "signTransaction"
    /\ pc = "done"
    /\ outcome.state = "resolved"
    /\ Len(toSend) = 3
    /\ lastReceived = [i |-> 2, data |-> SigResponse(1)]

\* the four operations the soft fallback is documented for
C8_FallbackOps ==
    { "provideERC20TokenInformation", "starkProvideQuantum",
      "starkProvideQuantum_v2", "eth2SetWithdrawalIndex" }

\* C8: a send that fails with status 0x6d00 resolves with false in the four
\* operations and rejects in every other one; a send that succeeds resolves
\* with true in the four operations
C8_SoftFallback ==
    pc = "done" =>
        /\ (failure.error = StatusError(27904) /\ op \in C8_FallbackOps)
               => outcome = Resolved(False)
        /\ (failure.error = StatusError(27904)
            /\ op \in AllOps \ C8_FallbackOps)
               => outcome.state = "rejected"
        /\ (failure.i < 0 /\ sent # << >> /\ op \in C8_FallbackOps)
               => outcome = Resolved(True)

\* eth2SetWithdrawalIndex resolved with false after status 0x6d00
C8_Witness ==
    /\ op = "eth2SetWithdrawalIndex"
    /\ pc = "done"
    /\ failure.error = StatusError(27904)
    /\ outcome = Resolved(False)

\* C9: status 0x6a80 on any frame of signTransaction surfaces as the
\* EthAppPleaseEnableContractData error
C9_ContractDataRemap ==
    (op = "signTransaction" /\ pc = "done"
     /\ failure.error = StatusError(27264)) =>
        outcome = Rejected(EthAppPleaseEnableContractData)

\* a continuation frame of a transaction failed with status 0x6a80
C9_Witness ==
    /\ op = "signTransaction"
    /\ pc = "done"
    /\ failure = [i |-> 1, error |-> StatusError(27264)]
    /\ outcome = Rejected(EthAppPleaseEnableContractData)

\* C10: in every operation but signTransaction a failure with status 0x6a80
\* surfaces as the error the transport raised
C10_RemapOnlyInSignTransaction ==
    (op \in AllOps \ { "signTransaction" } /\ pc = "done"
     /\ failure.error = StatusError(27264)) =>
        outcome = Rejected(StatusError(27264))

\* a continuation frame of a message failed with status 0x6a80
C10_Witness ==
    /\ op = "signPersonalMessage"
    /\ pc = "done"
    /\ failure = [i |-> 1, error |-> StatusError(27264)]
    /\ outcome = Rejected(StatusError(27264))

\* C11: a failed send whose status code is not 0x6d00 rejects each of the
\* four soft-fallback operations with the very error the transport raised,
\* and one whose status code is not 0x6a80 rejects signTransaction with the
\* very error the transport raised
C11_OtherErrorsPropagate ==
    (pc = "done" /\ failure.i >= 0) =>
        /\ (op \in C8_FallbackOps /\ failure.error.statusCode # 27904)
               => outcome = Rejected(failure.error)
        /\ (op = "signTransaction" /\ failure.error.statusCode # 27264)
               => outcome = Rejected(failure.error)

\* starkProvideQuantum_v2 was refused by the device (0x6985) and
\* rejected with that error
C11_Witness ==
    /\ op = "starkProvideQuantum_v2"
    /\ pc = "done"
    /\ failure.error = StatusError(27013)
    /\ outcome = Rejected(StatusError(27013))

\* bytes at + 1 .. at + n of buf (source offsets at .. at + n - 1) are zero
ZeroFilled(buf, at, n) == \A i \in (at + 1)..(at + n) : buf[i] = 0

\* the v2 operations that build a frame with a quantization tag
C12_TaggedOps ==
    { "starkSignOrder_v2", "starkSignTransfer_v2", "starkProvideQuantum_v2" }

\* C12: the frame of starkSignOrder_v2, starkSignTransfer_v2 and
\* starkProvideQuantum_v2 has the same length whichever of the optional
\* token address, magnitude and mintable blob / token id are null (for
\* a transfer, given whether it is conditional), and the bytes of a null
\* sub-field are zero
C12_AbsentFieldsZeroFilled ==
    (op \in C12_TaggedOps /\ sent # << >>) =>
        LET d  == sent[1].data
            at == 1 + 4 * Len(paths)
        IN  /\ op = "starkSignOrder_v2" =>
                /\ Len(d) = at + 202
                /\ IsNull(args.sourceTokenAddress) => ZeroFilled(d, at + 1, 20)
                /\ IsNull(args.sourceQuantization) => ZeroFilled(d, at + 21, 32)
                /\ IsNull(args.sourceMintableBlobOrTokenId)
                       => ZeroFilled(d, at + 53, 32)
                /\ IsNull(args.destinationQuantization)
                       => ZeroFilled(d, at + 106, 32)
            /\ op = "starkSignTransfer_v2" =>
                /\ Len(d) = at + 141
                       + (IF args.conditionalTransferAddress = << >>
                          THEN 0 ELSE 52)
                /\ IsNull(args.transferTokenAddress) => ZeroFilled(d, at + 1, 20)
                /\ IsNull(args.transferQuantization) => ZeroFilled(d, at + 21, 32)
                /\ IsNull(args.transferMintableBlobOrTokenId)
                       => ZeroFilled(d, at + 53, 32)
            /\ op = "starkProvideQuantum_v2" =>
                /\ Len(d) = 84
                /\ IsNull(args.operationContract) => ZeroFilled(d, 0, 20)
                /\ IsNull(args.operationQuantization) => ZeroFilled(d, 20, 32)
                /\ IsNull(args.operationMintableBlobOrTokenId)
                       => ZeroFilled(d, 52, 32)

\* an order whose source is plain ether: no token address, no magnitude,
\* no token id
C12_Witness ==
    /\ op = "starkSignOrder_v2"
    /\ sent # << >>
    /\ args.sourceQuantizationType = "eth"
    /\ IsNull(args.sourceTokenAddress)
    /\ IsNull(args.sourceQuantization)
    /\ IsNull(args.sourceMintableBlobOrTokenId)
    /\ Len(sent[1].data) = 1 + 4 * Len(paths) + 202

\* C13: starkSignTransfer_v2 sends param1 0x05 exactly when its frame has
\* the 52 bytes of the condition after the 141 bytes of the transfer, and
\* 0x04 exactly when it has not
C13_InstructionMatchesShape ==
    (op = "starkSignTransfer_v2" /\ sent # << >>) =>
        LET base == 1 + 4 * Len(paths) + 141
        IN  /\ sent[1].p1 \in { 4, 5 }
            /\ Len(sent[1].data) \in { base, base + 52 }
            /\ sent[1].p1 = 5 <=> Len(sent[1].data) = base + 52
            /\ sent[1].p1 = 4 <=> Len(sent[1].data) = base

\* a conditional transfer called with an address and no fact: param1 is
\* 0x05 and the frame has the 52 bytes
C13_Witness ==
    /\ op = "starkSignTransfer_v2"
    /\ sent # << >>
    /\ ~IsNull(args.conditionalTransferAddress)
    /\ IsNull(args.conditionalTransferFact)
    /\ sent[1].p1 = 5
    /\ Len(sent[1].data) = 1 + 4 * Len(paths) + 141 + 52

\* the closed set of quantization types
C14_ClosedSet == { "eth", "erc20", "erc721", "erc20mintable", "erc721mintable" }

\* the quantization types the operation in progress was called with
C14_TypesGiven ==
    IF op = "starkSignOrder_v2"
    THEN { args.sourceQuantizationType, args.destinationQuantizationType }
    ELSE IF op = "starkSignTransfer_v2" THEN { args.transferQuantizationType }
    ELSE IF op = "starkProvideQuantum_v2"
         THEN { args.operationQuantizationType }
    ELSE { }

C15_Oversized ==
    \/ /\ op = "starkSignOrder"
       /\ \/ Len(args.sourceQuantization) > 64
          \/ Len(args.destinationQuantization) > 64
          \/ Len(args.amountSell) > 16
          \/ Len(args.amountBuy) > 16
    \/ /\ op = "starkProvideQuantum"
       /\ Len(args.operationQuantization) > 64

\* C15: an operation called with a magnitude wider than its field has
\* failed in the call itself: the call is rejected and nothing was handed to
\* transport.send, so that no frame holds a byte of the value in the field
\* after it
C15_OversizedMagnitudeRejected ==
    C15_Oversized =>
        /\ pc = "done"
        /\ outcome.state = "rejected"
        /\ sent = << >>

\* the last byte of a 33-byte source quantization of starkSignOrder is the
\* first byte of the frame's destination token address, which was null
C15_WrittenIntoNeighbour ==
    /\ op = "starkSignOrder"
    /\ sent # << >>
    /\ args.sourceQuantization = WideMagnitude
    /\ IsNull(args.destinationTokenAddress)
    /\ sent[1].data[1 + 4 * Len(paths) + 52 + 1] = HexDecode(WideMagnitude)[33]
    /\ HexDecode(WideMagnitude)[33] # 0

\* the answer the result was parsed from is shorter than the layout the
\* operation reads: 1 + 32 + 32 bytes for a signature; for getAddress the
\* two length bytes, the public key, the address and, when asked for, the
\* 32 bytes of the chain code
C16_ResponseTooShort ==
    LET d == lastReceived.data
    IN  \/ /\ op \in SignatureOps \cup StarkSignatureOps
           /\ Len(d) < 1 + 32 + 32
        \/ /\ op = "getAddress"
           /\ \/ Len(d) < 1
              \/ Len(d) < 1 + d[1] + 1
              \/ Len(d) < 1 + d[1] + 1 + d[1 + d[1] + 1]
                           + (IF sent[1].p2 = 1 THEN 32 ELSE 0)

\* C16: an operation that parses its answer and whose sends all succeeded
\* is rejected, not resolved, when the answer is shorter than its layout
C16_ShortResponseRejected ==
    (pc = "done" /\ failure.i < 0 /\ lastReceived.i >= 0
     /\ C16_ResponseTooShort) =>
        outcome.state = "rejected"

\* getAddress answered by the bare status word resolved with an empty
\* address
C16_ResolvedTruncated ==
    /\ op = "getAddress"
    /\ pc = "done"
    /\ lastReceived.data = StatusWord
    /\ outcome.state = "resolved"
    /\ outcome.value.address = << >>

\* bytes of header in frame j: the path and, for a message, its length
C17_Header(j) ==
    IF j # 1 THEN 0
    ELSE 1 + 4 * Len(paths) + (IF op = "signPersonalMessage" THEN 4 ELSE 0)

\* payload bytes frame j has room for
C17_Capacity(j) == 150 - C17_Header(j)

\* payload bytes frame j carries
C17_Carried(j) == Len(toSend[j]) - C17_Header(j)

\* C17: every frame the chunking loop builds is at most 150 bytes long with
\* its header, and every frame that does not end the payload carries exactly
\* its capacity, or one byte less when it ends just before the marker offset
\* of signTransaction
C17_FramesWithinCapacity ==
    op \in ChunkedOps =>
        \A j \in 1..Len(toSend) :
            /\ Len(toSend[j]) <= 150
            /\ C17_Carried(j) <= C17_Capacity(j)
            /\ BoundaryAfter(j) # Len(payload) =>
                   \/ C17_Carried(j) = C17_Capacity(j)
                   \/ /\ op = "signTransaction"
                      /\ rlpOffset # 0
                      /\ BoundaryAfter(j) = rlpOffset - 1
                      /\ C17_Carried(j) = C17_Capacity(j) - 1

\* a transaction in three frames: a full first frame, a second frame one
\* byte short because of the marker, and the rest
C17_Witness ==
    /\ op = "signTransaction"
    /\ pc = "foreach"
    /\ Len(toSend) = 3
    /\ Len(toSend[1]) = 150
    /\ Len(toSend[2]) = 149
    /\ BoundaryAfter(2) = rlpOffset - 1

\* the header of frame 0 alone is longer than a frame
C18_HeaderOverflows == op \in ChunkedOps /\ C17_Header(1) > 150

\* C18: signTransaction or signPersonalMessage called with a path whose
\* header does not fit in the first frame has failed in the call itself:
\* the call is rejected, the chunking loop was not entered, no frame was
\* built and none was sent
C18_PathOverflowRejected ==
    C18_HeaderOverflows =>
        /\ pc = "done"
        /\ outcome.state = "rejected"
        /\ toSend = << >>
        /\ sent = << >>

\* the chunking loop is about to compute a negative capacity for frame 0
C18_NegativeCapacity ==
    /\ C18_HeaderOverflows
    /\ pc = "chunk"
    /\ offset = 0
    /\ maxChunkSize(op, paths, offset) < 0

\* an empty message with a path of 38 components got as far as foreach
C18_EmptyMessageNotRejected ==
    /\ C18_HeaderOverflows
    /\ op = "signPersonalMessage"
    /\ payload = << >>
    /\ pc = "foreach"

\* the operations that take a path
C19_PathOps ==
    { "getAddress", "signTransaction", "signPersonalMessage",
      "signEIP712HashedMessage", "starkGetPublicKey", "starkSignOrder",
      "starkSignOrder_v2", "starkSignTransfer", "starkSignTransfer_v2",
      "starkUnsafeSign", "eth2GetPublicKey" }

\* the four bytes of d after source offset at are component c, most
\* significant byte first: its top bit is the hardened bit, the 31 bits
\* below are the index
C19_HoldsComponent(d, at, c) ==
    /\ (d[at + 1] >= 128) = c.hardened
    /\ (d[at + 1] % 128) * 16777216 + d[at + 2] * 65536 + d[at + 3] * 256
           + d[at + 4] = c.index

\* payload bytes carried by the frames before frame j
RECURSIVE C19_CarriedBefore(_)
C19_CarriedBefore(j) ==
    IF j = 1 THEN 0 ELSE C19_CarriedBefore(j - 1) + C17_Carried(j - 1)

\* C19: the first frame of every operation that takes a path starts with
\* the number of components in one byte and then the components in order,
\* four bytes each, most significant byte first; a later frame of a chunked
\* operation is a slice of the payload and nothing else
C19_PathHeader ==
    (op \in C19_PathOps /\ toSend # << >>) =>
        /\ Len(toSend[1]) >= 1 + 4 * Len(paths)
        /\ toSend[1][1] = Len(paths)
        /\ \A c \in 1..Len(paths) :
               C19_HoldsComponent(toSend[1], 1 + 4 * (c - 1), paths[c])
        /\ \A j \in 2..Len(toSend) :
               toSend[j] = SubSeq(payload, C19_CarriedBefore(j) + 1,
                                  C19_CarriedBefore(j) + Len(toSend[j]))
        /\ \A j \in 1..Len(sent) : sent[j].data = toSend[j]

\* two frames of a transaction with the path 44'/52752' have been sent
C19_Witness ==
    /\ op = "signTransaction"
    /\ Len(paths) = 2
    /\ Len(sent) = 2
    /\ SubSeq(sent[1].data, 1, 9) = << 2, 128, 0, 0, 44, 128, 0, 206, 16 >>

\* the errors of the model that belong to a documented kind: the Error
\* thrown for an invalid quantization type (caller input), the failures of
\* transport.send (transport error, device refusal) and the remapped error
\* of signTransaction (contract data disabled)
C20_DocumentedErrors ==
    { "Error", "TransportStatusError", "DisconnectedDevice",
      "EthAppPleaseEnableContractData" }

\* C20: an operation that has ended has resolved or is rejected with an
\* error of a documented kind; signTransaction and signPersonalMessage with
\* an empty payload do not end in the error of reading an answer that was
\* never received
C20_EndsInDocumentedOutcome ==
    pc = "done" =>
        /\ \/ outcome.state = "resolved"
           \/ /\ outcome.state = "rejected"
              /\ outcome.error.name \in C20_DocumentedErrors
        /\ (op \in ChunkedOps /\ payload = << >>) => outcome.error # TypeError

\* signPersonalMessage with an empty message ended in a TypeError without
\* a single send
C20_EmptyPayloadTypeError ==
    /\ op = "signPersonalMessage"
    /\ payload = << >>
    /\ pc = "done"
    /\ sent = << >>
    /\ outcome = Rejected(TypeError)

\* C21: within one operation no frame is handed to transport.send twice,
\* and a failed send is the last send of the operation, whatever the status
\* code: the operation is over and nothing is in flight
C21_NoRetry ==
    /\ Len(sent) <= Len(toSend)
    /\ \A j, k \in 1..Len(sent) : j # k => sent[j].i # sent[k].i
    /\ failure.i >= 0 =>
           /\ pc = "done"
           /\ inflight = {}
           /\ sent[Len(sent)].i = failure.i

\* the second of three frames of a transaction failed with status 0x6a80
\* and the third was never sent
C21_Witness ==
    /\ op = "signTransaction"
    /\ Len(toSend) = 3
    /\ failure = [i |-> 1, error |-> StatusError(27264)]
    /\ Len(sent) = 2
    /\ pc = "done"

\* the two hexadecimal characters of byte b, high digit first
C23_HexOf(b) == << HexChars[(b \div 16) + 1], HexChars[(b % 16) + 1] >>

\* str is the hexadecimal form of the n bytes of d after source offset at
C23_IsHexOf(str, d, at, n) ==
    /\ Len(str) = 2 * n
    /\ \A i \in 1..n :
           << str[2 * i - 1], str[2 * i] >> = C23_HexOf(d[at + i])

\* C23: a signature operation that resolves from an answer of 65 bytes
\* returns the byte at offset 0 as v (signTransaction: as two hexadecimal
\* characters), bytes 1..32 as the 64 characters of r and bytes 33..64 as
\* the 64 characters of s: the three fields are the whole answer
C23_SignatureFields ==
    (op \in SignatureOps /\ pc = "done" /\ outcome.state = "resolved"
     /\ Len(lastReceived.data) = 65) =>
        LET d   == lastReceived.data
            sig == outcome.value
        IN  /\ sig.v = (IF op = "signTransaction" THEN C23_HexOf(d[1])
                        ELSE << d[1] >>)
            /\ C23_IsHexOf(sig.r, d, 1, 32)
            /\ C23_IsHexOf(sig.s, d, 33, 32)
            /\ 1 + Len(sig.r) \div 2 + Len(sig.s) \div 2 = Len(d)

\* signPersonalMessage resolved from the 65-byte answer to its last frame
C23_Witness ==
    /\ op = "signPersonalMessage"
    /\ pc = "done"
    /\ outcome.state = "resolved"
    /\ Len(toSend) = 2
    /\ lastReceived = [i |-> 1, data |-> Signature65]

\* the boundary frame j would have ended on without the marker rule: as
\* many bytes as the frame has room for, or all that is left
C24_Proposed(j) ==
    BoundaryAfter(j - 1)
    + Min(C17_Capacity(j), Len(payload) - BoundaryAfter(j - 1))

\* frame j of a transaction was proposed to end on the marker offset
C24_Shrunk(j) ==
    op = "signTransaction" /\ rlpOffset # 0 /\ C24_Proposed(j) = rlpOffset

\* C24 as stated: a frame of signTransaction whose proposed boundary was the
\* marker offset ends at an offset greater than the marker offset and less
\* than the length of the payload
C24_ShrunkBoundaryInsideSuffix ==
    \A j \in 1..Len(toSend) :
        C24_Shrunk(j) =>
            /\ BoundaryAfter(j) > rlpOffset
            /\ BoundaryAfter(j) < Len(payload)

\* C24 amended: a frame of signTransaction whose proposed boundary was the
\* marker offset ends one byte before the marker offset, so that the frame
\* after it starts with the byte before the marker
C24_ShrunkBoundaryBeforeSuffix ==
    \A j \in 1..Len(toSend) :
        C24_Shrunk(j) =>
            /\ BoundaryAfter(j) = rlpOffset - 1
            /\ BoundaryAfter(j) > BoundaryAfter(j - 1)
            /\ BoundaryAfter(j) < Len(payload)

\* the second frame of a transaction was proposed to end on the marker and
\* ends one byte before it
C24_Witness ==
    /\ op = "signTransaction"
    /\ Len(toSend) >= 2
    /\ C24_Shrunk(2)
    /\ BoundaryAfter(2) = rlpOffset - 1

\* the number the four bytes of d after source offset at stand for, most
\* significant byte first
C25_ReadUInt32BE(d, at) ==
    d[at + 1] * 16777216 + d[at + 2] * 65536 + d[at + 3] * 256 + d[at + 4]

\* C25: the four bytes after the path in frame 0 of signPersonalMessage are
\* the length of the whole message, and every later frame is a slice of the
\* message with no prefix
C25_LengthPrefix ==
    (op = "signPersonalMessage" /\ toSend # << >>) =>
        /\ C25_ReadUInt32BE(toSend[1], 1 + 4 * Len(paths)) = Len(payload)
        /\ \A j \in 2..Len(toSend) :
               /\ Len(toSend[j]) = BoundaryAfter(j) - BoundaryAfter(j - 1)
               /\ toSend[j] = SubSeq(payload, BoundaryAfter(j - 1) + 1,
                                      BoundaryAfter(j))

\* a message of 300 bytes in three frames: the prefix of frame 0 is 300,
\* not the number of bytes frame 0 carries
C25_Witness ==
    /\ op = "signPersonalMessage"
    /\ Len(payload) = 300
    /\ Len(toSend) = 3
    /\ C25_ReadUInt32BE(toSend[1], 1 + 4 * Len(paths)) = 300
    /\ C17_Carried(1) < 300

\* C26: for a non-empty payload and a path that leaves frame 0 room for at
\* least two payload bytes, every frame the loop builds carries at least one
\* payload byte, the cursor is the number of bytes carried so far, it never
\* passes the end of the payload, and the loop goes on only while bytes are
\* left: the cursor grows with every frame until it is the payload length
C26_LoopProgress ==
    (op \in ChunkedOps /\ payload # << >> /\ C17_Capacity(1) >= 2) =>
        /\ \A j \in 1..Len(toSend) : C17_Carried(j) >= 1
        /\ \A j \in 1..Len(toSend) : BoundaryAfter(j) > BoundaryAfter(j - 1)
        /\ offset = BoundaryAfter(Len(toSend))
        /\ offset <= Len(payload)
        /\ pc = "chunk" => offset < Len(payload)
        /\ pc \in { "foreach", "done" } => offset = Len(payload)

\* a transaction whose first frame was shortened by the marker rule has
\* been chunked to its end in two frames
C26_Witness ==
    /\ op = "signTransaction"
    /\ C17_Capacity(1) >= 2
    /\ C24_Shrunk(1)
    /\ Len(toSend) = 2
    /\ pc = "foreach"
    /\ offset = Len(payload)

\* the frames that do not end the payload and carry less than their capacity
C27_Shortened ==
    { j \in 1..Len(toSend) :
        BoundaryAfter(j) # Len(payload) /\ C17_Carried(j) < C17_Capacity(j) }

\* the number of frames a payload takes when every frame but the last is
\* filled to its capacity
C27_FramesWithoutRule ==
    IF Len(payload) <= C17_Capacity(1) THEN 1
    ELSE 1 + (Len(payload) - C17_Capacity(1) + 149) \div 150

\* C27: in signTransaction at most one frame is proposed to end on the
\* marker offset and at most one frame is shortened, so that a payload takes
\* at most one frame more than it would without the marker rule
C27_AtMostOneShortened ==
    (op = "signTransaction" /\ C17_Capacity(1) >= 1) =>
        /\ Cardinality({ j \in 1..Len(toSend) : C24_Shrunk(j) }) <= 1
        /\ Cardinality(C27_Shortened) <= 1
        /\ C27_Shortened \subseteq { j \in 1..Len(toSend) : C24_Shrunk(j) }
        /\ Len(toSend) <= C27_FramesWithoutRule + 1

\* a transaction in three frames, the second one shortened and no other
C27_Witness ==
    /\ op = "signTransaction"
    /\ pc = "foreach"
    /\ Len(toSend) = 3
    /\ C27_Shortened = { 2 }

\* C29: starkSignTransfer_v2 called with a condition address: the frame has
\* the 52 bytes of the condition and is sent with param1 0x05; with a null
\* fact all 52 bytes are zero, the address is not written; with a fact the
\* 32 bytes are the fact and the 20 bytes the address
C29_ConditionWithoutFact ==
    (op = "starkSignTransfer_v2" /\ sent # << >>
     /\ ~IsNull(args.conditionalTransferAddress)) =>
        LET d  == sent[1].data
            at == 1 + 4 * Len(paths) + 141
        IN  /\ Len(d) = at + 52
            /\ sent[1].p1 = 5
            /\ IF IsNull(args.conditionalTransferFact)
               THEN ZeroFilled(d, at, 52)
               ELSE /\ SubSeq(d, at + 1, at + 32)
                          = HexDecode(PadStart(args.conditionalTransferFact, 64))
                    /\ SubSeq(d, at + 33, at + 52)
                          = HexDecode(args.conditionalTransferAddress)

\* a transfer with a condition address and a null fact was sent
C29_Witness ==
    /\ op = "starkSignTransfer_v2"
    /\ sent # << >>
    /\ args.conditionalTransferAddress = TokenAddress
    /\ IsNull(args.conditionalTransferFact)
    /\ sent[1].p1 = 5
    /\ ZeroFilled(sent[1].data, 1 + 4 * Len(paths) + 141, 52)

\* C28: LEDGER.getAccount is never rejected: after a failed send it has
\* resolved with the empty string, after an answered send with the address
\* read from the answer
C28_GetAccountNeverRejects ==
    op = "getAccount" =>
        /\ outcome.state # "rejected"
        /\ pc = "done" =>
               /\ outcome.state = "resolved"
               /\ failure.i >= 0 => outcome.value = EmptyString
               /\ failure.i < 0 =>
                      /\ outcome.value.kind = "string"
                      /\ lastReceived.data = AddressResponse
                             => outcome.value.str = << 97, 98, 99, 100 >>

\* the device refused (0x6985) and LEDGER.getAccount resolved with ""
C28_Witness ==
    /\ op = "getAccount"
    /\ pc = "done"
    /\ failure.error = StatusError(27013)
    /\ outcome = Resolved(EmptyString)

-----------------------------------------------------------------------------
(* C22: two calls at the same time *)

\* C22: under every interleaving of the sends and the answers of two calls
\* made at the same time on one instance, a call that resolves returns the
\* signature parsed from the last answer to one of its own frames, and
\* every frame of its own list has been sent
C22_OwnResponse ==
    \A c \in Callers :
        calls[c].pc = "done" /\ calls[c].outcome.state = "resolved" =>
            /\ calls[c].idx = Len(calls[c].toSend)
            /\ Len(calls[c].received) = Len(calls[c].toSend)
            /\ calls[c].outcome.value =
                   ParseSignature(calls[c].op,
                                  calls[c].received[Len(calls[c].received)])

\* caller 1 has its result from its own answers while caller 2, which has
\* received a different answer to its first frame, still has a frame to send
C22_Witness ==
    /\ calls[1].pc = "done"
    /\ calls[1].outcome = Resolved(ParseSignature(calls[1].op, SigResponse(1)))
    /\ Len(calls[1].toSend) = 2
    /\ calls[2].pc = "foreach"
    /\ calls[2].received = << SigResponse(2) >>
    /\ calls[2].idx < Len(calls[2].toSend)
    /\ calls[2].op # calls[1].op


=============================================================================
